---- MODULE Spec2Model ----
(***************************************************************************)
(* A model of installer.py (class ArchInstaller and main).                 *)
(*                                                                         *)
(* The main thread runs main -> run_installer -> install_packages ->       *)
(* install_package_interactive / install_package_noconfirm; its position   *)
(* is pc.  Every child started by subprocess.Popen gets a record in procs, *)
(* together with the daemon thread running read_process_output on it.      *)
(* The environment is the user at the keyboard (user_types, user_sigint)    *)
(* and the child processes (child_writes, child_closes_stdout,              *)
(* child_exits).                                                            *)
(*                                                                         *)
(* Keyboard text is a sequence of character codes (ord), so that            *)
(* handle_input's comparisons are the code's.  A line of child output is a  *)
(* record [text, ok]: text is what readline returns, a sequence of          *)
(* one-character strings that ends with the newline; ok is FALSE when the   *)
(* bytes cannot be decoded, which makes readline raise.                     *)
(* datetime.now() is not modelled: a log entry is its level and message.    *)
(***************************************************************************)
EXTENDS Integers, Sequences, FiniteSets, TLC

-----------------------------------------------------------------------------
(* Bounds of the model *)

\* longest primary package list handed to run_installer
MaxPkgs == 2
\* longest AUR package list handed to run_installer
MaxAur == 1
\* keys the user presses during one run
MaxKeys == 3
\* lines all children together write during one run
MaxOut == 1
\* appends to each buffer in BufSpec
MaxAppends == 19
\* lines in the output buffer in DetectSpec
MaxLines == 6
\* keys the user presses during one run of InputSpec
MaxTyped == 4
\* lines the child writes during one run of StreamSpec
MaxStreamed == 3

-----------------------------------------------------------------------------
(* Program constants *)

\* self.current_process = None
NoProcess == 0
\* "\r", "\n", "\x7f", "\x08", "\x03" and the printable threshold of handle_input
CR == 13
LF == 10
DEL == 127
BS == 8
ETX == 3
FirstPrintable == 32
\* ord("n"), ord("N"), ord("Y")
LowerN == 110
UpperN == 78
UpperY == 89
\* the windows of update_display and of the prompt detection
LogWindow == 10
OutputWindow == 18
PromptWindow == 5
\* signal.SIGTERM, sent by Popen.terminate; a process killed by it returns -15
SIGTERM == 15

PkgNames == <<"vim", "git", "htop", "neofetch">>
AurNames == <<"visual-studio-code-bin", "yay-bin", "paru">>

\* the keys the user may press
Keys == {ETX, CR, UpperN}

\* the lines a child may write
\* " \n", " ok \n", ":: [Y/n]\n" and a line that cannot be decoded
BlankLine == [text |-> <<" ", "\n">>, ok |-> TRUE]
PlainLine == [text |-> <<" ", "o", "k", " ", "\n">>, ok |-> TRUE]
PromptLine == [text |-> <<":", ":", " ", "[", "Y", "/", "n", "]", "\n">>, ok |-> TRUE]
BadLine == [text |-> <<"?", "\n">>, ok |-> FALSE]
RawLines == {BlankLine, PlainLine, PromptLine, BadLine}

\* "Proceed with installation", "Continue?", "[Y/n]"
PatternProceed ==
  <<"P", "r", "o", "c", "e", "e", "d", " ", "w", "i", "t", "h", " ", "i",
    "n", "s", "t", "a", "l", "l", "a", "t", "i", "o", "n">>
PatternContinue == <<"C", "o", "n", "t", "i", "n", "u", "e", "?">>
PatternYn == <<"[", "Y", "/", "n", "]">>
PromptPatterns == {PatternProceed, PatternContinue, PatternYn}

ExitCodes == {0, 1}

-----------------------------------------------------------------------------
(* Helpers *)

Prefix(s, n) == SubSeq(s, 1, n)

\* s[-k:]
Last(s, k) == IF Len(s) <= k THEN s ELSE SubSeq(s, Len(s) - k + 1, Len(s))

\* s[1:]
DropFirst(s) == SubSeq(s, 2, Len(s))

\* s[:-1]
DropLast(s) == SubSeq(s, 1, Len(s) - 1)

\* str.lower on one character code and on a string
LowerChar(c) == IF c >= 65 /\ c <= 90 THEN c + 32 ELSE c
lower(s) == [k \in 1..Len(s) |-> LowerChar(s[k])]

-----------------------------------------------------------------------------
(* State *)

VARIABLES
  \* arguments of run_installer and the environment it starts in
  packages, aur_packages, isatty, init_mode,
  \* main thread: position, pending exception, exit status of the program
  pc, wfi_site, exc, exit_status,
  \* locals of run_installer / install_packages
  interactive, batch, idx, successful, failed, success,
  \* fields of ArchInstaller
  current_package, installation_status, progress_total, progress_current,
  current_process, custom_logs, pacman_output,
  input_buffer, input_prompt, waiting_for_input, input_queue,
  old_terminal_settings, layout,
  \* terminal and keyboard
  term_mode, stdin, keys_pressed,
  \* child processes with their reader threads
  procs, lines_written,
  \* history: launch attempts, per-package results, calls of restore_terminal,
  \* whether KeyboardInterrupt was raised and the process that was current and
  \* running at that moment, the numbers of entries handed to the two buffers,
  \* the characters get_char has returned in the current call of
  \* wait_for_input, and what every finished call read and returned
  launches, results, restores, aborted, active_at_abort, fed, typed, returns

\* what no step of a run changes (fed counts the appends of BufSpec)
argVars == <<packages, aur_packages, isatty, init_mode, fed>>
batchVars == <<interactive, batch, idx, successful, failed, success>>
dispVars == <<current_package, installation_status, progress_total, progress_current>>
inputVars == <<input_buffer, input_prompt, waiting_for_input, input_queue, typed,
               returns>>
termVars == <<old_terminal_settings, term_mode, restores>>
userVars == <<stdin, keys_pressed>>
childVars == <<procs, lines_written>>
histVars == <<launches, results, aborted, active_at_abort>>

vars == <<argVars, pc, wfi_site, exc, exit_status, batchVars, dispVars,
          current_process, custom_logs, pacman_output, inputVars, layout,
          termVars, userVars, childVars, histVars>>

\* the list install_packages works on in batch b (run_installer calls it for
\* packages, then for aur_packages)
BatchList(b) == IF b = 1 THEN packages ELSE aur_packages

-----------------------------------------------------------------------------
(* Logs, output buffer and display *)

\* add_log: appends "[timestamp] log_type: message"
add_log(logs, message, log_type) ==
  Append(logs, [level |-> log_type, message |-> message])

\* str.isspace on one character
IsSpace(c) == c \in {" ", "\t", "\n", "\r", "\f"}

\* str.rstrip, str.lstrip, str.strip
RECURSIVE rstrip(_)
rstrip(s) ==
  IF s = <<>> THEN s
  ELSE IF IsSpace(s[Len(s)]) THEN rstrip(SubSeq(s, 1, Len(s) - 1))
  ELSE s
RECURSIVE lstrip(_)
lstrip(s) ==
  IF s = <<>> THEN s
  ELSE IF IsSpace(s[1]) THEN lstrip(Tail(s))
  ELSE s
strip(s) == lstrip(rstrip(s))

\* add_pacman_output on a ring of OutputWindow lines
add_pacman_output_ring(out, line) ==
  IF strip(line.text) = <<>> THEN out
  ELSE IF Len(out) >= OutputWindow THEN Append(Tail(out), rstrip(line.text))
  ELSE Append(out, rstrip(line.text))

\* add_pacman_output: a line that is not blank is appended without its
\* trailing whitespace
add_pacman_output(out, line) ==
  IF strip(line.text) /= <<>> THEN Append(out, rstrip(line.text)) ELSE out

\* update_input_area: the content of the layout's input_area
update_input_area(waiting, prompt, buffer) ==
  IF waiting
  THEN [prompt |-> prompt, text |-> buffer, cursor |-> TRUE]
  ELSE [prompt |-> "Ready for next operation...", text |-> <<>>, cursor |-> FALSE]

\* update_display: rebuilds every region of the layout from the fields
update_display(package, status, current, total, logs, out, waiting, prompt, buffer) ==
  [status |-> [current |-> IF package = "" THEN "None" ELSE package,
               status |-> status,
               progress |-> IF total > 0
                            THEN <<(current * 20) \div total, current, total>>
                            ELSE <<>>],
   logs |-> Last(logs, LogWindow),
   output |-> Last(out, OutputWindow),
   input_area |-> update_input_area(waiting, prompt, buffer)]

\* pattern in text
Contains(text, pattern) ==
  \E k \in 0..(Len(text) - Len(pattern)) :
    \A j \in 1..Len(pattern) : text[k + j] = pattern[j]

RECURSIVE Flatten(_)
Flatten(ss) == IF ss = <<>> THEN <<>> ELSE Head(ss) \o Flatten(Tail(ss))

\* repr of a str: in single quotes, in double quotes when the string holds a
\* single quote and no double quote; backslash, the quote in use and the
\* control characters are escaped
repr_quote(s) ==
  IF (\E k \in 1..Len(s) : s[k] = "'") /\ ~(\E k \in 1..Len(s) : s[k] = "\"")
  THEN "\"" ELSE "'"
repr_char(c, quote) ==
  IF c = "\\" THEN <<"\\", "\\">>
  ELSE IF c = quote THEN <<"\\", c>>
  ELSE IF c = "\r" THEN <<"\\", "r">>
  ELSE IF c = "\n" THEN <<"\\", "n">>
  ELSE IF c = "\t" THEN <<"\\", "t">>
  ELSE <<c>>
repr(s) ==
  <<repr_quote(s)>> \o Flatten([k \in 1..Len(s) |-> repr_char(s[k], repr_quote(s))])
                   \o <<repr_quote(s)>>

\* "".join(lines)
str_list_joined(lines) == Flatten(lines)

\* str of a list of str: "[" + ", ".join(repr of each) + "]"
str_list(lines) ==
  <<"[">> \o Flatten([k \in 1..Len(lines) |->
                       (IF k > 1 THEN <<",", " ">> ELSE <<>>) \o repr(lines[k])])
         \o <<"]">>

\* the condition of install_package_interactive's loop over pacman_output[-5:]
prompt_detected(out) ==
  \/ Contains(str_list(Last(out, PromptWindow)), PatternProceed)
  \/ Contains(str_list(Last(out, PromptWindow)), PatternContinue)
  \/ Contains(str_list(Last(out, PromptWindow)), PatternYn)

-----------------------------------------------------------------------------
(* Terminal and keyboard *)

\* setup_terminal: the saved settings and the mode afterwards
setup_terminal_saved(tty, mode, saved) == IF tty THEN mode ELSE saved
setup_terminal_mode(tty, mode) == IF tty THEN "raw" ELSE mode

\* restore_terminal without its tcsetattr
restore_terminal_skipped(saved, mode) == mode

\* restore_terminal: the mode afterwards
restore_terminal(saved, mode) == IF saved /= "None" THEN saved ELSE mode

\* get_char: the next character, or 0 for None
get_char(tty, buffered) == IF tty /\ buffered /= <<>> THEN Head(buffered) ELSE 0

\* handle_input ending the wait at the first printable character
handle_input_eager(char, buffer, waiting, queue) ==
  IF char = CR \/ char = LF
  THEN [buffer |-> <<>>, waiting |-> FALSE, queue |-> Append(queue, buffer),
        raised |-> FALSE]
  ELSE IF char = DEL \/ char = BS
  THEN [buffer |-> IF buffer /= <<>> THEN DropLast(buffer) ELSE buffer,
        waiting |-> waiting, queue |-> queue, raised |-> FALSE]
  ELSE IF char = ETX
  THEN [buffer |-> buffer, waiting |-> waiting, queue |-> queue, raised |-> TRUE]
  ELSE IF char >= FirstPrintable
  THEN [buffer |-> Append(buffer, char), waiting |-> FALSE, queue |-> queue,
        raised |-> FALSE]
  ELSE [buffer |-> buffer, waiting |-> waiting, queue |-> queue, raised |-> FALSE]

\* handle_input: the input fields after one character, and whether it raised
\* KeyboardInterrupt
handle_input(char, buffer, waiting, queue) ==
  IF char = CR \/ char = LF
  THEN [buffer |-> <<>>, waiting |-> FALSE, queue |-> Append(queue, buffer),
        raised |-> FALSE]
  ELSE IF char = DEL \/ char = BS
  THEN [buffer |-> IF buffer /= <<>> THEN DropLast(buffer) ELSE buffer,
        waiting |-> waiting, queue |-> queue, raised |-> FALSE]
  ELSE IF char = ETX
  THEN [buffer |-> buffer, waiting |-> waiting, queue |-> queue, raised |-> TRUE]
  ELSE IF char >= FirstPrintable
  THEN [buffer |-> Append(buffer, char), waiting |-> waiting, queue |-> queue,
        raised |-> FALSE]
  ELSE [buffer |-> buffer, waiting |-> waiting, queue |-> queue, raised |-> FALSE]

-----------------------------------------------------------------------------
(* Initial state: ArchInstaller.__init__, then main calls run_installer *)

Init ==
  /\ packages \in {Prefix(PkgNames, n) : n \in 0..MaxPkgs}
  /\ aur_packages \in {Prefix(AurNames, n) : n \in 0..MaxAur}
  /\ isatty \in BOOLEAN
  /\ init_mode = "cooked"
  /\ term_mode = init_mode
  /\ pc = "run_installer"
  /\ wfi_site = "none"
  /\ exc = "none"
  /\ exit_status = -1
  /\ interactive = TRUE
  /\ batch = 0
  /\ idx = 0
  /\ successful = 0
  /\ failed = 0
  /\ success = FALSE
  /\ current_package = ""
  /\ installation_status = <<"Ready">>
  /\ progress_total = 0
  /\ progress_current = 0
  /\ current_process = NoProcess
  /\ custom_logs = <<>>
  /\ pacman_output = <<>>
  /\ input_buffer = <<>>
  /\ input_prompt = ""
  /\ waiting_for_input = FALSE
  /\ input_queue = <<>>
  /\ old_terminal_settings = "None"
  /\ layout = [status |-> [current |-> "", status |-> <<>>, progress |-> <<>>],
               logs |-> <<>>, output |-> <<>>,
               input_area |-> [prompt |-> "", text |-> <<>>, cursor |-> FALSE]]
  /\ stdin = <<>>
  /\ keys_pressed = 0
  /\ procs = <<>>
  /\ lines_written = 0
  /\ launches = <<>>
  /\ results = <<>>
  /\ restores = 0
  /\ aborted = FALSE
  /\ active_at_abort = NoProcess
  /\ fed = [output |-> 0, logs |-> 0]
  /\ typed = <<>>
  /\ returns = <<>>

-----------------------------------------------------------------------------
(* Main thread: run_installer and wait_for_input *)

\* the first statements of wait_for_input, called from `site`
wait_for_input_begin(prompt, site) ==
  /\ input_prompt' = prompt
  /\ input_buffer' = <<>>
  /\ waiting_for_input' = TRUE
  /\ typed' = <<>>
  /\ UNCHANGED <<input_queue, returns>>
  /\ wfi_site' = site
  /\ pc' = "wait_for_input"

\* the last statements of wait_for_input: input_queue.get_nowait(), "" when
\* the queue is empty
wait_for_input_result == IF input_queue /= <<>> THEN Head(input_queue) ELSE <<>>
wait_for_input_end ==
  /\ input_queue' = IF input_queue /= <<>> THEN Tail(input_queue) ELSE <<>>
  /\ returns' = Append(returns, [site |-> wfi_site, typed |-> typed,
                                 line |-> wait_for_input_result])
  /\ UNCHANGED <<input_buffer, input_prompt, waiting_for_input, typed>>

\* whether the main thread is inside the try block of install_package_*
in_package_try ==
  \/ pc \in {"popen", "interactive_loop", "noconfirm_wait"}
  \/ pc = "wait_for_input" /\ wfi_site = "confirm"

\* KeyboardInterrupt raised in the main thread: inside install_package_* the
\* finally clause runs first (except Exception does not catch it), then the
\* handler of run_installer
raise_KeyboardInterrupt ==
  /\ exc' = "KeyboardInterrupt"
  /\ aborted' = TRUE
  /\ active_at_abort' = IF current_process = NoProcess THEN NoProcess
                        ELSE IF procs[current_process].state = "running"
                        THEN current_process ELSE NoProcess
  /\ pc' = IF in_package_try THEN "finally" ELSE "interrupted"

\* run_installer, line 377
run_installer_setup ==
  /\ pc = "run_installer"
  /\ old_terminal_settings' = setup_terminal_saved(isatty, term_mode, old_terminal_settings)
  /\ term_mode' = setup_terminal_mode(isatty, term_mode)
  /\ pc' = "started"
  /\ UNCHANGED <<argVars, wfi_site, exc, exit_status, batchVars, dispVars,
                 current_process, custom_logs, pacman_output, inputVars, layout,
                 restores, userVars, childVars, histVars>>

\* run_installer, lines 379-384, up to the loop of wait_for_input
run_installer_begin ==
  /\ pc = "started"
  /\ custom_logs' = add_log(custom_logs, <<"Arch Linux Auto-Installer started">>, "INFO")
  /\ layout' = update_display(current_package, installation_status, progress_current,
                              progress_total, custom_logs', pacman_output,
                              waiting_for_input, input_prompt, input_buffer)
  /\ wait_for_input_begin("Use interactive mode? (Y/n)", "mode")
  /\ UNCHANGED <<argVars, exc, exit_status, batchVars, dispVars, current_process,
                 pacman_output, termVars, userVars, childVars, histVars>>

\* one round of wait_for_input's loop: get_char, handle_input, sleep
wait_for_input_poll ==
  /\ pc = "wait_for_input"
  /\ waiting_for_input
  /\ LET char == get_char(isatty, stdin)
         h == handle_input(char, input_buffer, waiting_for_input, input_queue)
     IN IF char = 0
        THEN UNCHANGED vars
        ELSE /\ stdin' = Tail(stdin)
             /\ input_buffer' = h.buffer
             /\ waiting_for_input' = h.waiting
             /\ input_queue' = h.queue
             /\ typed' = Append(typed, char)
             /\ IF h.raised
                THEN raise_KeyboardInterrupt /\ UNCHANGED <<wfi_site, launches, results>>
                ELSE UNCHANGED <<pc, wfi_site, exc, histVars>>
             /\ UNCHANGED <<argVars, exit_status, batchVars, dispVars, current_process,
                            custom_logs, pacman_output, input_prompt, returns, layout,
                            termVars, keys_pressed, childVars>>

\* run_installer, lines 384-385: the answer to the mode question
run_installer_mode ==
  /\ pc = "wait_for_input"
  /\ ~waiting_for_input
  /\ wfi_site = "mode"
  /\ wait_for_input_end
  /\ interactive' = (lower(wait_for_input_result) /= <<LowerN>>)
  /\ batch' = 1
  /\ pc' = "batch"
  /\ wfi_site' = "none"
  /\ UNCHANGED <<argVars, exc, exit_status, idx, successful, failed, success, dispVars,
                 current_process, custom_logs, pacman_output, layout, termVars,
                 userVars, childVars, histVars>>

\* run_installer, lines 387-399: one of the two calls of install_packages,
\* with its first statement (line 343)
run_installer_batch ==
  /\ pc = "batch"
  /\ batch <= 2
  /\ IF BatchList(batch) /= <<>>
     THEN /\ custom_logs' = add_log(custom_logs,
                 <<IF batch = 1 THEN "Installing packages with pacman"
                   ELSE "Installing AUR packages with yay", Len(BatchList(batch))>>, "INFO")
          /\ progress_total' = Len(BatchList(batch))
          /\ pc' = "install_packages_begin"
          /\ UNCHANGED batch
     ELSE /\ batch' = batch + 1
          /\ UNCHANGED <<pc, custom_logs, progress_total>>
  /\ UNCHANGED <<argVars, wfi_site, exc, exit_status, interactive, idx, successful,
                 failed, success, current_package, installation_status,
                 progress_current, current_process, pacman_output, inputVars, layout,
                 termVars, userVars, childVars, histVars>>

\* install_packages, lines 344-347
install_packages_begin ==
  /\ pc = "install_packages_begin"
  /\ progress_current' = 0
  /\ successful' = 0
  /\ failed' = 0
  /\ idx' = 0
  /\ pc' = "install_packages"
  /\ UNCHANGED <<argVars, wfi_site, exc, exit_status, interactive, batch, success,
                 current_package, installation_status, progress_total, current_process,
                 custom_logs, pacman_output, inputVars, layout, termVars, userVars,
                 childVars, histVars>>

\* run_installer, lines 401-406, up to the loop of wait_for_input
run_installer_finish ==
  /\ pc = "batch"
  /\ batch > 2
  /\ current_package' = ""
  /\ installation_status' = <<"All installations complete!">>
  /\ custom_logs' = add_log(custom_logs, <<"Installer finished successfully">>, "INFO")
  /\ layout' = update_display(current_package', installation_status', progress_current,
                              progress_total, custom_logs', pacman_output,
                              waiting_for_input, input_prompt, input_buffer)
  /\ wait_for_input_begin("Press Enter to exit", "exit")
  /\ UNCHANGED <<argVars, exc, exit_status, batchVars, progress_total, progress_current,
                 current_process, pacman_output, termVars, userVars, childVars, histVars>>

\* run_installer, line 406: the final wait returns and the with block ends
run_installer_exit ==
  /\ pc = "wait_for_input"
  /\ ~waiting_for_input
  /\ wfi_site = "exit"
  /\ wait_for_input_end
  /\ pc' = "restore"
  /\ wfi_site' = "none"
  /\ UNCHANGED <<argVars, exc, exit_status, batchVars, dispVars, current_process,
                 custom_logs, pacman_output, layout, termVars, userVars, childVars,
                 histVars>>

\* Popen.terminate: SIGTERM to a process that has not exited
terminate(ps, p) ==
  IF ps[p].state = "running" THEN [ps EXCEPT ![p].signalled = TRUE] ELSE ps

\* run_installer, lines 408-411: except KeyboardInterrupt
run_installer_interrupted ==
  /\ pc = "interrupted"
  /\ custom_logs' = add_log(custom_logs, <<"Installation interrupted by user">>, "WARNING")
  /\ procs' = IF current_process /= NoProcess
              THEN terminate(procs, current_process)
              ELSE procs
  /\ exc' = "none"
  /\ pc' = "restore"
  /\ UNCHANGED <<argVars, wfi_site, exit_status, batchVars, dispVars, current_process,
                 pacman_output, inputVars, layout, termVars, userVars, lines_written,
                 histVars>>

\* run_installer, lines 414-415: finally
run_installer_finally ==
  /\ pc = "restore"
  /\ term_mode' = restore_terminal(old_terminal_settings, term_mode)
  /\ restores' = restores + 1
  /\ pc' = "returned"
  /\ UNCHANGED <<argVars, wfi_site, exc, exit_status, batchVars, dispVars,
                 current_process, custom_logs, pacman_output, inputVars, layout,
                 old_terminal_settings, userVars, childVars, histVars>>

\* main, lines 436-440: sys.exit(1) when run_installer let KeyboardInterrupt
\* through, else the interpreter exits with status 0
main_exit ==
  /\ pc = "returned"
  /\ exit_status' = IF exc = "KeyboardInterrupt" THEN 1 ELSE 0
  /\ pc' = "exited"
  /\ UNCHANGED <<argVars, wfi_site, exc, batchVars, dispVars, current_process,
                 custom_logs, pacman_output, inputVars, layout, termVars, userVars,
                 childVars, histVars>>

-----------------------------------------------------------------------------
(* Main thread: install_packages and install_package_* *)

\* the loop of install_packages walking the list backwards
Package_reversed == BatchList(batch)[Len(BatchList(batch)) - idx]

\* the package install_packages is at
Package == BatchList(batch)[idx + 1]
use_yay == batch = 2

\* the command lines of install_package_interactive and install_package_noconfirm
interactive_cmd(package, yay) ==
  IF yay THEN <<"yay", "-S", package>> ELSE <<"sudo", "pacman", "-S", package>>
noconfirm_cmd(package, yay) ==
  IF yay THEN <<"yay", "-S", "--noconfirm", package>>
  ELSE <<"sudo", "pacman", "-S", "--noconfirm", package>>

\* a child just started by subprocess.Popen, with the thread reading its
\* output; wrote is history: the lines the child has written
NewProcess(package, cmd, stdin_pipe) ==
  [package |-> package, cmd |-> cmd, stdin_pipe |-> stdin_pipe,
   state |-> "running", returncode |-> 0, stdout_open |-> TRUE, pipe |-> <<>>,
   stdin |-> <<>>, signalled |-> FALSE, reader |-> "running", wrote |-> <<>>]

\* install_packages, lines 349-357 with the first statements of
\* install_package_* (lines 217-219 / 292-294), and lines 368-372 after the loop
install_packages_next ==
  /\ pc = "install_packages"
  /\ IF idx < Len(BatchList(batch))
     THEN /\ progress_current' = idx
          /\ layout' = update_display(current_package, installation_status,
                                      progress_current', progress_total, custom_logs,
                                      pacman_output, waiting_for_input, input_prompt,
                                      input_buffer)
          /\ current_package' = Package
          /\ installation_status' = <<"Installing", Package>>
          /\ custom_logs' = add_log(custom_logs, <<"Starting installation of", Package>>,
                                    "INFO")
          /\ pc' = "popen"
          /\ UNCHANGED batch
     ELSE /\ current_package' = ""
          /\ installation_status' = <<"Complete", successful, failed>>
          /\ custom_logs' = add_log(custom_logs,
                 <<"Installation complete", successful, Len(BatchList(batch))>>, "INFO")
          /\ batch' = batch + 1
          /\ pc' = "batch"
          /\ UNCHANGED <<progress_current, layout>>
  /\ UNCHANGED <<argVars, wfi_site, exc, exit_status, interactive, idx, successful,
                 failed, success, progress_total, current_process, pacman_output,
                 inputVars, termVars, userVars, childVars, histVars>>

\* the except Exception clause of install_package_*
package_exception(e) ==
  /\ custom_logs' = add_log(custom_logs, <<"Exception installing", current_package, e>>,
                            "ERROR")
  /\ installation_status' = <<"error", current_package>>
  /\ success' = FALSE
  /\ pc' = "finally"

\* the statements after the process has exited (lines 272-281 / 321-330)
package_result(return_code) ==
  /\ IF return_code = 0
     THEN /\ custom_logs' = add_log(custom_logs,
                 <<"Successfully installed", current_package>>, "SUCCESS")
          /\ installation_status' = <<"installed", current_package>>
          /\ success' = TRUE
     ELSE /\ custom_logs' = add_log(custom_logs,
                 <<"Failed to install", current_package, return_code>>, "ERROR")
          /\ installation_status' = <<"failed", current_package>>
          /\ success' = FALSE
  /\ pc' = "finally"

\* subprocess.Popen (it may raise: missing binary, no permission) and
\* output_thread.start()
start_process(cmd, stdin_pipe, next_pc) ==
  /\ pc = "popen"
  /\ \E launched \in BOOLEAN :
       /\ launches' = Append(launches, [batch |-> batch, idx |-> idx,
                                        package |-> current_package,
                                        launched |-> launched])
       /\ IF launched
          THEN /\ procs' = Append(procs, NewProcess(current_package, cmd, stdin_pipe))
               /\ current_process' = Len(procs) + 1
               /\ pc' = next_pc
               /\ UNCHANGED <<custom_logs, installation_status, success>>
          ELSE /\ package_exception("OSError")
               /\ UNCHANGED <<procs, current_process>>
  /\ UNCHANGED <<argVars, wfi_site, exc, exit_status, interactive, batch, idx,
                 successful, failed, current_package, progress_total, progress_current,
                 pacman_output, inputVars, layout, termVars, userVars, lines_written,
                 results, aborted, active_at_abort>>

\* install_package_interactive, lines 232-249
install_package_interactive_start ==
  /\ interactive
  /\ start_process(interactive_cmd(current_package, use_yay), TRUE, "interactive_loop")

\* install_package_noconfirm, lines 302-316
install_package_noconfirm_start ==
  /\ ~interactive
  /\ start_process(noconfirm_cmd(current_package, use_yay), FALSE, "noconfirm_wait")

\* install_package_interactive, lines 252-281: one round of the monitoring
\* loop, up to the loop of wait_for_input when a prompt is detected, and the
\* statements after the loop when the process has exited
install_package_interactive_poll ==
  /\ pc = "interactive_loop"
  /\ IF procs[current_process].state = "running"
     THEN IF prompt_detected(pacman_output)
          THEN /\ wait_for_input_begin("Pacman is asking for confirmation", "confirm")
               /\ UNCHANGED <<argVars, exc, exit_status, batchVars, dispVars,
                              current_process, custom_logs, pacman_output, layout,
                              termVars, userVars, childVars, histVars>>
          ELSE UNCHANGED vars
     ELSE /\ package_result(procs[current_process].returncode)
          /\ UNCHANGED <<argVars, wfi_site, exc, exit_status, interactive, batch, idx,
                         successful, failed, current_package, progress_total,
                         progress_current, current_process, pacman_output, inputVars,
                         layout, termVars, userVars, childVars, histVars>>

\* lines 262-263 without the default
confirm_answer_no_default(user_input) == user_input

\* install_package_interactive, lines 262-263: an empty answer means "Y"
confirm_answer(user_input) == IF user_input = <<>> THEN <<UpperY>> ELSE user_input

\* install_package_interactive, lines 259-268: wait_for_input has returned;
\* the answer is written to the child's stdin.  Writing to the pipe of a child
\* that has exited raises BrokenPipeError.
install_package_interactive_write ==
  /\ pc = "wait_for_input"
  /\ ~waiting_for_input
  /\ wfi_site = "confirm"
  /\ wait_for_input_end
  /\ wfi_site' = "none"
  /\ LET user_input == confirm_answer(wait_for_input_result)
     IN IF procs[current_process].state = "running"
        THEN /\ procs' = [procs EXCEPT ![current_process].stdin =
                                          Append(@, user_input \o <<LF>>)]
             /\ pc' = "interactive_loop"
             /\ UNCHANGED <<custom_logs, installation_status, success>>
        ELSE /\ package_exception("BrokenPipeError")
             /\ UNCHANGED procs
  /\ UNCHANGED <<argVars, exc, exit_status, interactive, batch, idx, successful, failed,
                 current_package, progress_total, progress_current, current_process,
                 pacman_output, layout, termVars, userVars, lines_written, histVars>>

\* install_package_noconfirm, lines 318-330: wait() returns when the process
\* has exited
install_package_noconfirm_wait ==
  /\ pc = "noconfirm_wait"
  /\ procs[current_process].state = "exited"
  /\ package_result(procs[current_process].returncode)
  /\ UNCHANGED <<argVars, wfi_site, exc, exit_status, interactive, batch, idx,
                 successful, failed, current_package, progress_total, progress_current,
                 current_process, pacman_output, inputVars, layout, termVars, userVars,
                 childVars, histVars>>

\* install_packages, lines 359-362, without the else branch
count_result_no_else(ok, s, f) ==
  [successful |-> IF ok THEN s + 1 ELSE s, failed |-> f]

\* install_packages, lines 359-362: the counters after one package
count_result(ok, s, f) ==
  [successful |-> IF ok THEN s + 1 ELSE s, failed |-> IF ok THEN f ELSE f + 1]

\* the finally clause of install_package_* (lines 287-288 / 336-337) and, when
\* no KeyboardInterrupt is on its way, install_packages lines 359-366
install_package_finally ==
  /\ pc = "finally"
  /\ current_process' = NoProcess
  /\ IF exc = "KeyboardInterrupt"
     THEN /\ pc' = "interrupted"
          /\ UNCHANGED <<successful, failed, progress_current, layout, idx, results>>
     ELSE /\ successful' = count_result(success, successful, failed).successful
          /\ failed' = count_result(success, successful, failed).failed
          /\ progress_current' = idx + 1
          /\ layout' = update_display(current_package, installation_status,
                                      progress_current', progress_total, custom_logs,
                                      pacman_output, waiting_for_input, input_prompt,
                                      input_buffer)
          /\ results' = Append(results, [batch |-> batch, idx |-> idx,
                                         package |-> current_package,
                                         process |-> current_process,
                                         success |-> success])
          /\ idx' = idx + 1
          /\ pc' = "install_packages"
  /\ UNCHANGED <<argVars, wfi_site, exc, exit_status, interactive, batch, success,
                 current_package, installation_status, progress_total, custom_logs,
                 pacman_output, inputVars, termVars, userVars, childVars, launches,
                 aborted, active_at_abort>>

-----------------------------------------------------------------------------
(* The reader thread of each child *)

\* line 209 without the test of poll()
reader_stops_at_eof(proc) == TRUE

\* read_process_output, line 209: after an empty read, process.poll() is not
\* None
reader_stops(proc) == proc.state = "exited"

\* read_process_output: one round of the loop for process p.  readline blocks
\* while the pipe is empty and open; it raises on undecodable bytes.
read_process_output(p) ==
  /\ procs[p].reader = "running"
  /\ procs[p].pipe /= <<>> \/ ~procs[p].stdout_open
  /\ IF procs[p].pipe /= <<>>
     THEN IF Head(procs[p].pipe).ok
          THEN /\ pacman_output' = add_pacman_output(pacman_output, Head(procs[p].pipe))
               /\ procs' = [procs EXCEPT ![p].pipe = Tail(@)]
               /\ UNCHANGED custom_logs
          ELSE /\ custom_logs' = add_log(custom_logs,
                      <<"Error reading output", "UnicodeDecodeError">>, "ERROR")
               /\ procs' = [procs EXCEPT ![p].pipe = Tail(@), ![p].reader = "failed"]
               /\ UNCHANGED pacman_output
     ELSE IF reader_stops(procs[p])
          THEN /\ procs' = [procs EXCEPT ![p].reader = "done"]
               /\ UNCHANGED <<custom_logs, pacman_output>>
          ELSE UNCHANGED <<procs, custom_logs, pacman_output>>
  /\ UNCHANGED <<argVars, pc, wfi_site, exc, exit_status, batchVars, dispVars,
                 current_process, inputVars, layout, termVars, userVars, lines_written,
                 histVars>>

-----------------------------------------------------------------------------
(* Environment: the user and the child processes *)

\* the user presses a key while the terminal is in raw mode: the character is
\* queued on stdin (Ctrl+C included: raw mode switches signal generation off).
\* One unread key at a time: stdin is read by wait_for_input alone, so a run
\* with keys typed ahead has the same program states as the run in which each
\* key is pressed just before the round of the loop that reads it.
user_types(c) ==
  /\ isatty
  /\ term_mode = "raw"
  /\ keys_pressed < MaxKeys
  /\ stdin = <<>>
  /\ stdin' = Append(stdin, c)
  /\ keys_pressed' = keys_pressed + 1
  /\ UNCHANGED <<argVars, pc, wfi_site, exc, exit_status, batchVars, dispVars,
                 current_process, custom_logs, pacman_output, inputVars, layout,
                 termVars, childVars, histVars>>

\* the user presses Ctrl+C while the terminal is not in raw mode: SIGINT, and
\* KeyboardInterrupt raised in the main thread inside run_installer's try
user_sigint ==
  /\ term_mode /= "raw"
  /\ pc \in {"run_installer", "started", "wait_for_input", "batch",
             "install_packages_begin", "install_packages", "popen",
             "interactive_loop", "noconfirm_wait"}
  /\ keys_pressed < MaxKeys
  /\ keys_pressed' = keys_pressed + 1
  /\ raise_KeyboardInterrupt
  /\ UNCHANGED <<argVars, wfi_site, exit_status, batchVars, dispVars, current_process,
                 custom_logs, pacman_output, inputVars, layout, termVars, stdin,
                 childVars, launches, results>>

child_writes(p, line) ==
  /\ procs[p].state = "running"
  /\ procs[p].stdout_open
  /\ lines_written < MaxOut
  /\ procs' = [procs EXCEPT ![p].pipe = Append(@, line),
                            ![p].wrote = Append(@, line)]
  /\ lines_written' = lines_written + 1
  /\ UNCHANGED <<argVars, pc, wfi_site, exc, exit_status, batchVars, dispVars,
                 current_process, custom_logs, pacman_output, inputVars, layout,
                 termVars, userVars, histVars>>

child_closes_stdout(p) ==
  /\ procs[p].state = "running"
  /\ procs[p].stdout_open
  /\ procs' = [procs EXCEPT ![p].stdout_open = FALSE]
  /\ UNCHANGED <<argVars, pc, wfi_site, exc, exit_status, batchVars, dispVars,
                 current_process, custom_logs, pacman_output, inputVars, layout,
                 termVars, userVars, lines_written, histVars>>

\* the child exits by itself, or is killed by the SIGTERM of terminate()
child_exits(p, code) ==
  /\ procs[p].state = "running"
  /\ code \in (IF procs[p].signalled THEN ExitCodes \cup {-SIGTERM} ELSE ExitCodes)
  /\ procs' = [procs EXCEPT ![p].state = "exited", ![p].returncode = code,
                            ![p].stdout_open = FALSE]
  /\ UNCHANGED <<argVars, pc, wfi_site, exc, exit_status, batchVars, dispVars,
                 current_process, custom_logs, pacman_output, inputVars, layout,
                 termVars, userVars, lines_written, histVars>>

-----------------------------------------------------------------------------
(* Specifications *)

MainStep ==
  \/ run_installer_setup
  \/ run_installer_begin
  \/ wait_for_input_poll
  \/ run_installer_mode
  \/ run_installer_batch
  \/ install_packages_begin
  \/ run_installer_finish
  \/ run_installer_exit
  \/ run_installer_interrupted
  \/ run_installer_finally
  \/ main_exit
  \/ install_packages_next
  \/ install_package_interactive_start
  \/ install_package_noconfirm_start
  \/ install_package_interactive_poll
  \/ install_package_interactive_write
  \/ install_package_noconfirm_wait
  \/ install_package_finally

ReaderStep == \E p \in 1..Len(procs) : read_process_output(p)

UserStep ==
  \/ \E c \in Keys : user_types(c)
  \/ user_sigint

ChildStep ==
  \E p \in 1..Len(procs) :
    \/ \E line \in RawLines : child_writes(p, line)
    \/ child_closes_stdout(p)
    \/ \E code \in ExitCodes \cup {-SIGTERM} : child_exits(p, code)

Next == MainStep \/ ReaderStep \/ UserStep \/ ChildStep

Spec == Init /\ [][Next]_vars

\* the threads of the program are scheduled fairly: every loop sleeps between
\* its rounds.  Nothing is assumed of the user or of the child processes.
FairSpec == Spec /\ WF_vars(MainStep) /\ WF_vars(ReaderStep)

-----------------------------------------------------------------------------
(* The two buffers alone: any number of add_pacman_output and add_log calls *)
(* on a fresh ArchInstaller, and update_display in between.  The n-th line  *)
(* that is not blank carries the number n, and so does the n-th message.    *)

LogLevels == <<"INFO", "SUCCESS", "ERROR", "WARNING">>

NumberedLine(n) == [text |-> <<"#", ToString(n), " ", "\n">>, ok |-> TRUE]

BufInit ==
  /\ Init
  /\ packages = <<>>
  /\ aur_packages = <<>>
  /\ isatty

buf_add_pacman_output ==
  /\ fed.output < MaxAppends
  /\ \E line \in {BlankLine, NumberedLine(fed.output + 1)} :
       /\ pacman_output' = add_pacman_output(pacman_output, line)
       /\ fed' = IF line = BlankLine THEN fed
                 ELSE [fed EXCEPT !.output = @ + 1]
  /\ UNCHANGED <<packages, aur_packages, isatty, init_mode, pc, wfi_site, exc,
                 exit_status, batchVars, dispVars, current_process, custom_logs,
                 inputVars, layout, termVars, userVars, childVars, histVars>>

buf_add_log ==
  /\ fed.logs < MaxAppends
  /\ custom_logs' = add_log(custom_logs, <<"message", fed.logs + 1>>,
                            LogLevels[(fed.logs % Len(LogLevels)) + 1])
  /\ fed' = [fed EXCEPT !.logs = @ + 1]
  /\ UNCHANGED <<packages, aur_packages, isatty, init_mode, pc, wfi_site, exc,
                 exit_status, batchVars, dispVars, current_process, pacman_output,
                 inputVars, layout, termVars, userVars, childVars, histVars>>

buf_update_display ==
  /\ layout' = update_display(current_package, installation_status, progress_current,
                              progress_total, custom_logs, pacman_output,
                              waiting_for_input, input_prompt, input_buffer)
  /\ UNCHANGED <<argVars, pc, wfi_site, exc, exit_status, batchVars, dispVars,
                 current_process, custom_logs, pacman_output, inputVars, termVars,
                 userVars, childVars, histVars>>

BufNext == buf_add_pacman_output \/ buf_add_log \/ buf_update_display

BufSpec == BufInit /\ [][BufNext]_vars

-----------------------------------------------------------------------------
(* Prompt detection alone: lines appended to the output buffer of a fresh   *)
(* ArchInstaller, and the condition of the monitoring loop on the buffer.   *)

\* ":: Proceed with installation? [Y/n]", "Continue?", and lines that hold no
\* pattern: "[Y/", "n]", "it's"
DetectBodies ==
  {<<":", ":", " ", "P", "r", "o", "c", "e", "e", "d", " ", "w", "i", "t", "h",
     " ", "i", "n", "s", "t", "a", "l", "l", "a", "t", "i", "o", "n", "?",
     " ", "[", "Y", "/", "n", "]">>,
   <<"C", "o", "n", "t", "i", "n", "u", "e", "?">>,
   <<"[", "Y", "/">>, <<"n", "]">>,
   <<"i", "t", "'", "s">>}

DetectInit ==
  /\ Init
  /\ packages = <<>>
  /\ aur_packages = <<>>
  /\ isatty

detect_add_pacman_output ==
  /\ Len(pacman_output) < MaxLines
  /\ \E body \in DetectBodies \cup {<<>>} :
       pacman_output' = add_pacman_output(pacman_output,
                                          [text |-> body \o <<"\n">>, ok |-> TRUE])
  /\ UNCHANGED <<argVars, pc, wfi_site, exc, exit_status, batchVars, dispVars,
                 current_process, custom_logs, inputVars, layout, termVars,
                 userVars, childVars, histVars>>

DetectSpec == DetectInit /\ [][detect_add_pacman_output]_vars

-----------------------------------------------------------------------------
(* Keyboard input alone: a run with nothing to install, which calls          *)
(* wait_for_input for the mode question and again before it exits, and a     *)
(* user who presses any of the keys handle_input tells apart.               *)

\* Ctrl+C, Enter as CR and as LF, delete, backspace, tab, "h", "i"
InputKeys == {ETX, CR, LF, DEL, BS, 9, 104, 105}

InputInit ==
  /\ Init
  /\ packages = <<>>
  /\ aur_packages = <<>>
  /\ isatty

input_types ==
  /\ term_mode = "raw"
  /\ keys_pressed < MaxTyped
  /\ stdin = <<>>
  /\ \E c \in InputKeys : stdin' = Append(stdin, c)
  /\ keys_pressed' = keys_pressed + 1
  /\ UNCHANGED <<argVars, pc, wfi_site, exc, exit_status, batchVars, dispVars,
                 current_process, custom_logs, pacman_output, inputVars, layout,
                 termVars, childVars, histVars>>

InputNext ==
  \/ run_installer_setup
  \/ run_installer_begin
  \/ wait_for_input_poll
  \/ run_installer_mode
  \/ run_installer_batch
  \/ run_installer_finish
  \/ run_installer_exit
  \/ run_installer_interrupted
  \/ run_installer_finally
  \/ main_exit
  \/ input_types

InputSpec == InputInit /\ [][InputNext]_vars

-----------------------------------------------------------------------------
(* One package and its reader thread: a run that installs one package whose *)
(* child writes up to MaxStreamed lines.                                    *)

StreamInit ==
  /\ Init
  /\ packages = Prefix(PkgNames, 1)
  /\ aur_packages = <<>>
  /\ isatty

stream_child_writes(p, line) ==
  /\ procs[p].state = "running"
  /\ procs[p].stdout_open
  /\ lines_written < MaxStreamed
  /\ procs' = [procs EXCEPT ![p].pipe = Append(@, line),
                            ![p].wrote = Append(@, line)]
  /\ lines_written' = lines_written + 1
  /\ UNCHANGED <<argVars, pc, wfi_site, exc, exit_status, batchVars, dispVars,
                 current_process, custom_logs, pacman_output, inputVars, layout,
                 termVars, userVars, histVars>>

StreamChildStep ==
  \E p \in 1..Len(procs) :
    \/ \E line \in RawLines : stream_child_writes(p, line)
    \/ child_closes_stdout(p)
    \/ \E code \in ExitCodes : child_exits(p, code)

StreamNext == MainStep \/ ReaderStep \/ (\E c \in Keys : user_types(c)) \/ StreamChildStep

StreamSpec == StreamInit /\ [][StreamNext]_vars

\* the reader thread sleeps between its rounds and is scheduled again
StreamFairSpec == StreamSpec /\ WF_vars(ReaderStep)

-----------------------------------------------------------------------------
(* Claims *)

Finished == pc \in {"returned", "exited"}
TotalPackages == Len(packages) + Len(aur_packages)

\* C1: when KeyboardInterrupt is raised while a child process runs,
\* run_installer calls terminate() on that process before it restores the
\* terminal.
C1_ActiveChildTerminated ==
  (pc \in {"restore", "returned", "exited"} /\ active_at_abort /= NoProcess)
    => procs[active_at_abort].signalled

\* a session is live while its process runs or its reader thread has not ended
SessionLive(p) == procs[p].state = "running" \/ procs[p].reader = "running"

\* C2: at most one session (process and reader thread) is live at any time: no
\* child is started while an earlier process or its reader thread is alive.
C2_NoSessionOverlap ==
  Cardinality({p \in 1..Len(procs) : SessionLive(p)}) <= 1

\* C3: without a TTY the run does not hang: it always goes on to finish,
\* no key being pressed.
C3_NonTtyRunFinishes == (~isatty) ~> (pc = "exited")

\* C4: the exit status is 0 when the run completes normally and nonzero when
\* KeyboardInterrupt was raised inside run_installer.
C4_ExitStatus == pc = "exited" => (exit_status = 0 <=> ~aborted)

\* C5: when run_installer has returned, on whatever path, restore_terminal has
\* been called and the terminal is in the mode it had before setup_terminal;
\* one more call of restore_terminal leaves it in that mode.
C5_TerminalRestored ==
  Finished =>
    /\ restores >= 1
    /\ term_mode = init_mode
    /\ restore_terminal(old_terminal_settings, term_mode) = init_mode

\* an interrupt during the confirmation wait of a package, with the terminal
\* in raw mode, and run_installer has returned
C5_Witness ==
  /\ pc = "returned"
  /\ aborted
  /\ active_at_abort /= NoProcess
  /\ old_terminal_settings /= "None"

\* Ctrl+C has been pressed and not yet read while a child runs and the main
\* thread monitors it (interactive, no prompt pending) or waits for it
\* (non-interactive)
CtrlCWhileChildRuns ==
  /\ stdin /= <<>>
  /\ Head(stdin) = ETX
  /\ pc \in {"interactive_loop", "noconfirm_wait"}
  /\ procs[current_process].state = "running"

InterruptLogged ==
  \E k \in 1..Len(custom_logs) :
    /\ custom_logs[k].level = "WARNING"
    /\ custom_logs[k].message = <<"Installation interrupted by user">>

\* C6: Ctrl+C pressed while a child runs leads to the shutdown log entry and
\* the terminal restore, whether or not the child ever exits.
C6_InterruptHandled ==
  CtrlCWhileChildRuns ~> (InterruptLogged /\ Finished)

\* install_packages has left its loop
BatchDone == pc = "install_packages" /\ idx = Len(BatchList(batch))

BatchResults == {j \in 1..Len(results) : results[j].batch = batch}

\* C7: when install_packages has gone through its list, successful + failed
\* is the length of the list and every package of the list has one result.
C7_CountersAddUp ==
  BatchDone =>
    /\ successful + failed = Len(BatchList(batch))
    /\ \A k \in 1..Len(BatchList(batch)) :
         Cardinality({j \in BatchResults : results[j].idx = k - 1}) = 1
    /\ successful = Cardinality({j \in BatchResults : results[j].success})
    /\ failed = Cardinality({j \in BatchResults : ~results[j].success})

\* a list of two packages done, the first of which could not be launched
C7_Witness ==
  /\ BatchDone
  /\ Len(BatchList(batch)) = 2
  /\ failed >= 1
  /\ \E j \in 1..Len(launches) : launches[j].batch = batch /\ ~launches[j].launched

\* the j-th package of the run: the primary list, then the AUR list
NthPackage(j) ==
  IF j <= Len(packages)
  THEN [batch |-> 1, idx |-> j - 1, package |-> packages[j]]
  ELSE [batch |-> 2, idx |-> j - Len(packages) - 1,
        package |-> aur_packages[j - Len(packages)]]

\* C8: the j-th launch attempt is for the j-th package, no package is tried
\* twice, a launch comes after the result of the package before it, and a run
\* that ends without a user abort has tried every package.
C8_InOrderNeverHalted ==
  /\ Len(launches) <= TotalPackages
  /\ \A j \in 1..Len(launches) :
       /\ launches[j].batch = NthPackage(j).batch
       /\ launches[j].idx = NthPackage(j).idx
       /\ launches[j].package = NthPackage(j).package
  /\ Len(results) <= Len(launches)
  /\ Len(launches) <= Len(results) + 1
  /\ \A j \in 1..Len(results) :
       /\ results[j].batch = launches[j].batch
       /\ results[j].idx = launches[j].idx
  /\ (pc \in {"restore", "returned", "exited"} /\ ~aborted)
       => Len(launches) = TotalPackages

\* three packages tried in a run that ended normally: the first could not be
\* launched and the second exited with a nonzero code
C8_Witness ==
  /\ pc = "exited"
  /\ ~aborted
  /\ Len(launches) = 3
  /\ ~launches[1].launched
  /\ results[2].process /= NoProcess
  /\ procs[results[2].process].returncode /= 0

\* C9: a package is recorded as succeeded exactly when its child process
\* exited with code 0.
C9_SuccessIffExitZero ==
  \A j \in 1..Len(results) :
    results[j].process /= NoProcess =>
      (results[j].success <=>
         /\ procs[results[j].process].state = "exited"
         /\ procs[results[j].process].returncode = 0)

LinesUpTo(n, k) == Last([j \in 1..n |-> <<"#", ToString(j)>>], k)
MessagesUpTo(n, k) ==
  Last([j \in 1..n |-> [level |-> LogLevels[((j - 1) % Len(LogLevels)) + 1],
                        message |-> <<"message", j>>]], k)

C11_ProgressWithinTotal == progress_current <= progress_total

\* C12: a step that writes to the stdin of a child is taken with
\* waiting_for_input false, after Enter has completed a line and put it on
\* input_queue; no write happens while waiting_for_input is true.
C12_NoWriteWhileWaiting ==
  [][\A p \in 1..Len(procs) :
       procs'[p].stdin /= procs[p].stdin =>
         /\ ~waiting_for_input
         /\ ~waiting_for_input'
         /\ input_queue /= <<>>
         /\ pc = "wait_for_input"]_vars

\* an answer has been written to the current child and the program waits for
\* the next line
C12_Witness ==
  /\ pc = "wait_for_input"
  /\ wfi_site = "confirm"
  /\ waiting_for_input
  /\ procs[current_process].stdin /= <<>>

\* the line a sequence of keystrokes leaves in the buffer: characters from
\* FirstPrintable on are appended, DEL and BS remove the last character, other
\* control codes are ignored
RECURSIVE LineOf(_)
LineOf(ks) ==
  IF ks = <<>> THEN <<>>
  ELSE LET before == LineOf(SubSeq(ks, 1, Len(ks) - 1))
           c == ks[Len(ks)]
       IN IF c = DEL \/ c = BS
          THEN (IF before = <<>> THEN <<>> ELSE SubSeq(before, 1, Len(before) - 1))
          ELSE IF c >= FirstPrintable THEN Append(before, c)
          ELSE before

\* the keystrokes of a call up to the Enter that ended it
BeforeEnter(ks) == SubSeq(ks, 1, Len(ks) - 1)

\* C13: every text written to a child's stdin is the line the user submitted
\* at the confirmation prompt followed by "\n", and "Y\n" when that line is
\* empty.
C13_WritesSubmittedLine ==
  [][\A p \in 1..Len(procs) :
       procs'[p].stdin /= procs[p].stdin =>
         procs'[p].stdin =
           Append(procs[p].stdin,
                  (IF LineOf(BeforeEnter(typed)) = <<>> THEN <<UpperY>>
                   ELSE LineOf(BeforeEnter(typed))) \o <<LF>>)]_vars

\* the user has answered a confirmation prompt with an empty line and "Y\n"
\* has been written to the child
C13_Witness ==
  /\ current_process /= NoProcess
  /\ returns /= <<>>
  /\ returns[Len(returns)].site = "confirm"
  /\ returns[Len(returns)].typed = <<CR>>
  /\ procs[current_process].stdin = <<(<<UpperY, LF>>)>>

\* a line holds one of the patterns verbatim
HoldsPattern(body) == \E pattern \in PromptPatterns : Contains(body, pattern)

\* C14: the condition of the monitoring loop is true exactly when one of the
\* last PromptWindow lines of the buffer holds one of the three patterns
\* verbatim; it is false on an empty buffer.
C14_DetectsPromptInLastLines ==
  prompt_detected(pacman_output) <=>
    \E k \in 1..Len(pacman_output) :
      /\ k > Len(pacman_output) - PromptWindow
      /\ HoldsPattern(pacman_output[k])

\* more lines than the window: a prompt line has left it, and the last lines
\* end with the two halves of "[Y/n]" one after the other
C14_Witness ==
  /\ Len(pacman_output) = PromptWindow + 1
  /\ HoldsPattern(pacman_output[1])
  /\ pacman_output[PromptWindow] = <<"[", "Y", "/">>
  /\ pacman_output[PromptWindow + 1] = <<"n", "]">>
  /\ ~prompt_detected(pacman_output)

IsEnter(c) == c = CR \/ c = LF

\* C15: every call of wait_for_input returns the line its keystrokes up to
\* the first Enter leave in an empty buffer (LineOf); while the call lasts
\* the buffer is the line of the keystrokes so far; Ctrl+C raises
\* KeyboardInterrupt whatever the buffer holds and nothing is read after it.
C15_LineFromKeystrokes ==
  /\ \A k \in 1..Len(returns) :
       /\ returns[k].typed /= <<>>
       /\ IsEnter(returns[k].typed[Len(returns[k].typed)])
       /\ \A j \in 1..(Len(returns[k].typed) - 1) :
            ~IsEnter(returns[k].typed[j]) /\ returns[k].typed[j] /= ETX
       /\ returns[k].line = LineOf(BeforeEnter(returns[k].typed))
  /\ (pc = "wait_for_input" /\ waiting_for_input) => input_buffer = LineOf(typed)
  /\ \A j \in 1..Len(typed) :
       typed[j] = ETX => (j = Len(typed) /\ aborted /\ pc /= "wait_for_input")

\* h, i, backspace, Enter has returned "h"
C15_Witness ==
  /\ Len(returns) = 1
  /\ returns[1].typed = <<104, 105, BS, CR>>
  /\ returns[1].line = <<104>>

\* the package of the main thread is in AWAITING_CONFIRMATION / in RUNNING
AwaitingConfirmation == pc = "wait_for_input" /\ wfi_site = "confirm"
Running == pc \in {"interactive_loop", "noconfirm_wait"}

\* C16: AWAITING_CONFIRMATION is entered from RUNNING, in interactive mode
\* and with the detector signalling a prompt, and it is left for RUNNING
\* (or by a user abort), never directly for SUCCEEDED or FAILED.
C16_ConfirmationReturnsToRunning ==
  [][/\ (~AwaitingConfirmation /\ AwaitingConfirmation') =>
          (Running /\ interactive /\ prompt_detected(pacman_output))
     /\ (AwaitingConfirmation /\ ~AwaitingConfirmation') =>
          (Running' \/ exc' = "KeyboardInterrupt")]_vars

\* C17: while wait_for_input waits, the input region of the layout comes to
\* show the current prompt and the buffer typed so far (unless the user
\* aborts the run first).
C17_InputShownWhileWaiting ==
  (pc = "wait_for_input" /\ waiting_for_input)
    ~> \/ layout.input_area = update_input_area(waiting_for_input, input_prompt,
                                                input_buffer)
       \/ aborted

\* the lines among ws that are not blank, each without its trailing
\* whitespace, in the order of ws
NotBlank(text) == \E k \in 1..Len(text) : ~IsSpace(text[k])
Trimmed(text) ==
  SubSeq(text, 1, CHOOSE k \in 1..Len(text) :
                    /\ ~IsSpace(text[k])
                    /\ \A j \in (k + 1)..Len(text) : IsSpace(text[j]))
RECURSIVE KeptLines(_)
KeptLines(ws) ==
  IF ws = <<>> THEN <<>>
  ELSE IF NotBlank(Head(ws).text) THEN <<Trimmed(Head(ws).text)>> \o KeptLines(Tail(ws))
  ELSE KeptLines(Tail(ws))

\* the first child of the run has exited; its reader thread has ended
FirstChildExited == IF procs = <<>> THEN FALSE ELSE procs[1].state = "exited"
FirstReaderStopped == IF procs = <<>> THEN FALSE ELSE procs[1].reader /= "running"

\* C18: a reader thread that has left its loop by the break has read the end
\* of the output of a process that has exited, and pacman_output holds the
\* lines the child wrote that are not blank, in the order written, without
\* their trailing whitespace; once the child has exited, the reader stops.
C18_ReaderStopsAtEndOfOutput ==
  /\ [](\A p \in 1..Len(procs) :
          procs[p].reader = "done" =>
            /\ procs[p].state = "exited"
            /\ ~procs[p].stdout_open
            /\ procs[p].pipe = <<>>
            /\ pacman_output = KeptLines(procs[p].wrote))
  /\ FirstChildExited ~> FirstReaderStopped

\* the reader has stopped after a prompt line, a blank line and a plain line
C18_Witness ==
  /\ procs /= <<>>
  /\ procs[1].reader = "done"
  /\ procs[1].wrote = <<PromptLine, BlankLine, PlainLine>>
  /\ Len(pacman_output) = 2

\* the log entries of read_process_output's except clause
ReadErrors ==
  {k \in 1..Len(custom_logs) :
     /\ custom_logs[k].level = "ERROR"
     /\ custom_logs[k].message[1] = "Error reading output"}

\* C19: a reader thread that fails leaves one ERROR entry in the log, and the
\* package of its process is still given its result by the exit code of the
\* process, once the process has exited.
C19_ReadFailureContained ==
  /\ Cardinality(ReadErrors)
       = Cardinality({p \in 1..Len(procs) : procs[p].reader = "failed"})
  /\ \A j \in 1..Len(results) :
       (/\ results[j].process /= NoProcess
        /\ procs[results[j].process].reader = "failed")
         => /\ procs[results[j].process].state = "exited"
            /\ results[j].success <=> (procs[results[j].process].returncode = 0)

\* the prompt lines process p has written so far
PromptsEmitted(p) ==
  {k \in 1..Len(procs[p].wrote) :
     procs[p].wrote[k].ok /\ HoldsPattern(procs[p].wrote[k].text)}

\* C20: the answers written to the stdin of a child are never more than the
\* prompt lines this child has written.
C20_OneAnswerPerPrompt ==
  \A p \in 1..Len(procs) : Len(procs[p].stdin) <= Cardinality(PromptsEmitted(p))

====
